---- MODULE Spec2Model ----
(***************************************************************************)
(* A model of logrus-graylog-hook: the GELF transports (datagram and       *)
(* stream), the BlockingList delivery queue with the Hook workers, the     *)
(* ObjectPool and the buffered UdpHook.                                    *)
(*                                                                         *)
(* Each subsystem has its own variables and its own specification; the     *)
(* variables of the other subsystems are left unchanged by it.             *)
(***************************************************************************)
EXTENDS Integers, Sequences, FiniteSets, TLC

VARIABLES
    \* ---- gelfBackend / udpBackend (one transport instance)
    networkType,   \* u.networkType: "tcp" or "udp"
    mu,            \* u.mu: the caller holding the send lock, or Nil
    conn,          \* u.conn: <<id>> of the connection referenced, or NilConn
    openConns,     \* ids of the connections dialled and not closed
    nDials,        \* number of connections dialled so far (next id)
    pc,            \* per caller: position inside SendMessage
    msg,           \* per caller: the message of the current call
    bytesLeft,     \* per caller: local bytesLeft of tcpWrite / write
    idx,           \* per caller: local i of the chunk loop
    nChunks,       \* per caller: local nChunks
    msgId,         \* per caller: local msgId
    connectCount,  \* per caller: local connectCount of tcpReconnect
    result,        \* per caller: what the current call returns
    \* ---- per-call observation of the connection (cleared when a call returns)
    put,           \* per caller: bytes this call put on the current connection
    dgrams,        \* per caller: conn.Write calls this call issued (datagram)
    trace,         \* per caller: tcpWrite entries and failures, dials of this call
    writes,        \* per caller: conn.Write calls of the current tcpWrite
    \* ---- BlockingList and the asynchronous Hook
    list,          \* bl.list: the pending records, front first
    ch,            \* bl.ch: number of signals in the channel
    blMu,          \* bl.mu: the goroutine holding the list lock, or Nil
    ppc,           \* per producer: position inside Fire / PushBack
    prec,          \* per producer: the record Fire was called with
    wpc,           \* per worker: position inside the worker loop / FrontBlock
    wcur,          \* per worker: the entry FrontBlock returned
    woken,         \* per worker: the last thing it did was receive from bl.ch
    nextRec,       \* the next record a producer will log
    \* ---- observation of the queue
    pushed,        \* records in the order list.PushBack inserted them
    popped,        \* records in the order list.Remove took them, with the worker
    sends,         \* records in the order sendEntry was called, with its result
    printed,       \* records whose Send error a worker printed
    returned,      \* the Fire calls that have returned: record and return value
    \* ---- Hook: mode and FlushAndClose
    synchronous,   \* hook.synchronous
    flpc,          \* position of the goroutine calling FlushAndClose
    lenSeen,       \* what its last u.queue.Len() returned
    flushAt,       \* how many records had been inserted when it was called
    closed,        \* u.backend.Close() has been called
    \* ---- ObjectPool
    capArg,        \* the capacity NewObjectPool was called with
    capacity,      \* p.capacity
    createdCount,  \* p.createdCount
    poMu,          \* p.mu: the goroutine holding the pool lock, or Nil
    poList,        \* p.list.list: the objects put back, front first
    poCh,          \* p.list.ch: number of signals in the channel
    poBlMu,        \* p.list.mu: the goroutine holding the list lock, or Nil
    gpc,           \* per client: position inside Get / Put
    held,          \* per client: the object it got and has not put back
    factoryCalls,  \* calls of p.factory: how many succeeded, how many failed
    \* ---- gelfBackend.Close
    closes,        \* calls of Close that have returned
    crashed,       \* a nil pointer dereference has ended the program
    \* ---- UdpHook
    hsync,         \* u.synchronous
    hpanic,        \* a nil pointer dereference has ended the program
    fsnap,         \* entries whose Fire had returned when Flush was last called
    buf,           \* u.buf: the entries in the channel, oldest first
    wg,            \* u.wg: the counter of the wait group
    rwReaders,     \* u.mu: number of read locks held
    rwWriter,      \* u.mu: Nil, "waiting" (Lock called) or "held"
    hpc,           \* per producer: position inside UdpHook.Fire
    hrec,          \* per producer: the entry Fire was called with
    fpc,           \* position of the goroutine calling Flush
    upc,           \* position of the worker goroutine
    ucur,          \* the entry the worker received
    hNext,         \* the next entry a producer will log
    fired,         \* entries whose Fire has returned
    done,          \* entries whose sendEntry has returned
    \* ---- redisBackend (the durable queue)
    rvariant,      \* which redisBackend: "asynq" or "goredis"
    rq,            \* the list "graylog" in the store, front first
    rpc,           \* position of the goroutine inside SendMessage
    rmsg,          \* the message SendMessage was called with
    rres,          \* what the last SendMessage returned
    pushFails,     \* failed pushes of the current SendMessage
    nextMsg,       \* the next message a sender will send
    cpc,           \* position of the goroutine inside LaunchConsumeSync
    ccur,          \* items[1]: the payload the consumer popped
    cmsg,          \* gelfMessage: the message decoded from it
    cres,          \* what LaunchConsumeSync returned
    handled,       \* the calls of the handler f: message and result
    \* ---- GELFMessage.UnmarshalJSON (one call)
    uobj,          \* data is a JSON object
    uin,           \* the object: JSON type of the value of each key
    jpc,           \* position inside UnmarshalJSON
    uleft,         \* keys `range i` has not visited yet
    uextra,        \* keys of m.Extra
    ufields,       \* fixed fields of m that have been assigned
    ures,          \* how the call ended: nil, an error, or a panic
    \* ---- NewGelfBackend (one call)
    narg,          \* the addr argument
    naddr,         \* the local addr, then u.addr
    npc,           \* position inside NewGelfBackend
    nres           \* what NewGelfBackend returned

tvars == <<networkType, mu, conn, openConns, nDials, pc, msg, bytesLeft,
           idx, nChunks, msgId, connectCount, result, put, dgrams, trace, writes>>

cvars == <<closes, crashed>>

qvars == <<list, ch, blMu, ppc, prec, wpc, wcur, woken, nextRec, pushed, popped,
           sends, printed, returned>>

kvars == <<synchronous, flpc, lenSeen, flushAt, closed>>

ovars == <<capArg, capacity, createdCount, poMu, poList, poCh, poBlMu, gpc, held,
           factoryCalls>>

hvars == <<buf, wg, rwReaders, rwWriter, hpc, hrec, fpc, upc, ucur, hNext, fired,
           done, hsync, hpanic, fsnap>>

rvars == <<rvariant, rq, rpc, rmsg, rres, pushFails, nextMsg, cpc, ccur, cmsg, cres,
           handled>>

uvars == <<uobj, uin, jpc, uleft, uextra, ufields, ures>>

nvars == <<narg, naddr, npc, nres>>

vars == <<tvars, cvars, qvars, kvars, ovars, hvars, rvars, uvars, nvars>>

\* what the actions of one subsystem leave alone
notT == <<cvars, qvars, kvars, ovars, hvars, rvars, uvars, nvars>>
notQ == <<cvars, tvars, ovars, hvars, rvars, uvars, nvars>>
notO == <<cvars, tvars, qvars, kvars, hvars, rvars, uvars, nvars>>
notH == <<cvars, tvars, qvars, kvars, ovars, rvars, uvars, nvars>>
notR == <<cvars, tvars, qvars, kvars, ovars, hvars, uvars, nvars>>
notU == <<cvars, tvars, qvars, kvars, ovars, hvars, rvars, nvars>>
\* what Close leaves alone besides the transport
notC == <<qvars, kvars, ovars, hvars, rvars, uvars, nvars>>
\* what NewGelfBackend leaves alone besides the transport it builds
notN == <<cvars, qvars, kvars, ovars, hvars, rvars, uvars>>

Nil == "nil"
\* the nil net.Conn
NilConn == <<>>
TCP == "tcp"
UDP == "udp"

Min(a, b) == IF a < b THEN a ELSE b

\* ------------------------------------------------------------------ bounds
MaxDials == 3        \* connections the model lets the transport dial in all
MaxWrites == 2       \* conn.Write calls the model follows inside one tcpWrite
MaxDialFails == 1    \* failed dials the model follows inside one tcpReconnect
MaxMsgLen == 2       \* length of a serialized message on the stream transport
MaxK == 2            \* payload sizes around k * chunkedDataLen, k = 1..MaxK

Callers == {"c1", "c2"}

\* ------------------------------------------------------- protocol constants
ChunkSize == 1420
chunkedHeaderLen == 12
chunkedDataLen == ChunkSize - chunkedHeaderLen
magicChunked == <<30, 15>>
\* the limit of `if chunkCount > 255`
MaxChunkCount == 255
\* '\x00', the byte tcpWrite appends
Terminator == 0

\* a numChunks that rounds down: the `+ 1` of the last branch is lost
numChunksRoundsDown(lenB) ==
    IF lenB <= ChunkSize THEN 1 ELSE lenB \div chunkedDataLen

\* numChunks returns the number of GELF chunks necessary to transmit a
\* compressed buffer of lenB bytes.
numChunks(lenB) ==
    IF lenB <= ChunkSize THEN 1
    ELSE IF lenB % chunkedDataLen = 0 THEN lenB \div chunkedDataLen
    ELSE lenB \div chunkedDataLen + 1

\* uint8(x)
Uint8(x) == x % 256

\* ------------------------------------------------------------------ inputs
\* 8-byte message ids rand.Reader may deliver
MsgIds == { <<1, 1, 1, 1, 1, 1, 1, 1>>, <<2, 7, 1, 8, 2, 8, 1, 8>> }

\* json.Marshal output: bytes other than the terminator, each one different
\* so that a repeated or misplaced byte shows
Datas == { [i \in 1..n |-> i] : n \in 1..MaxMsgLen }

\* sizes of the compressed payload: around the unchunked limit, around the
\* multiples of the chunk payload, and around the 255-chunk limit
UdpSizes ==
    {1, ChunkSize - 1, ChunkSize, ChunkSize + 1, 5000}
    \cup { k * chunkedDataLen + d : k \in 1..MaxK, d \in {-1, 0, 1} }
    \cup { MaxChunkCount * chunkedDataLen + d : d \in {-1, 0, 1} }
    \cup { (MaxChunkCount + 1) * chunkedDataLen + 1 }

SmallSizes == {ChunkSize, ChunkSize + 1, 2 * chunkedDataLen + 1}

\* a message: its serialization and the size of its gzip-compressed form
Message(d, z) == [data |-> d, zsize |-> z]
NoMsg == Message(<<>>, 0)

\* the messages of the datagram specification: the payload sizes matter
UdpMessages == { Message(<<1>>, z) : z \in UdpSizes }

\* the messages of the concurrent specification: every serialization, and the
\* payload sizes that make 1, 2 and 3 datagrams
SendMessages ==
    { Message(d, 1) : d \in Datas } \cup { Message(<<1>>, z) : z \in SmallSizes }

\* the results conn.Write(p) can report for a datagram of len bytes
DgramResults(len) ==
    { [n |-> len, err |-> FALSE], [n |-> 0, err |-> TRUE] }
    \cup (IF len > 0 THEN { [n |-> len - 1, err |-> FALSE] } ELSE {})

\* the results conn.Write(p) can report on a stream for len bytes offered
StreamResults(len) == [n : 0..len, err : BOOLEAN]

\* ------------------------------------------------------------------ errors
Ok == "ok"
ErrMarshal == "marshal"
ErrTooLarge == "msg too large"
ErrWrite == "network error"
ErrShort == "write len"
ErrRand == "rand.Reader"
ErrLeft == "bytes left after sending"
None == "none"

\* ------------------------------------------------------- transport: Init
TInit(types, active) ==
    /\ networkType \in types
    /\ mu = Nil
    /\ conn = <<0>>
    /\ openConns = {0}
    /\ nDials = 1
    /\ pc = [c \in Callers |-> IF c \in active THEN "idle" ELSE "off"]
    /\ msg \in [Callers -> {NoMsg}]
    /\ bytesLeft = [c \in Callers |-> 0]
    /\ idx = [c \in Callers |-> 0]
    /\ nChunks = [c \in Callers |-> 0]
    /\ msgId = [c \in Callers |-> <<>>]
    /\ connectCount = [c \in Callers |-> 0]
    /\ result = [c \in Callers |-> None]
    /\ put = [c \in Callers |-> <<>>]
    /\ dgrams = [c \in Callers |-> <<>>]
    /\ trace = [c \in Callers |-> <<>>]
    /\ writes = [c \in Callers |-> 0]
    /\ closes = 0
    /\ crashed = FALSE

\* ------------------------------------------------ SendMessage: entry, exit
\* a caller starts SendMessage(m)
Call(c, msgs) ==
    /\ pc[c] = "idle"
    /\ \E m \in msgs : msg' = [msg EXCEPT ![c] = m]
    /\ pc' = [pc EXCEPT ![c] = "lock"]
    /\ result' = [result EXCEPT ![c] = None]
    /\ UNCHANGED <<networkType, mu, conn, openConns, nDials, bytesLeft, idx,
                   nChunks, msgId, connectCount, put, dgrams, trace, writes>>
    /\ UNCHANGED notT

\* a Lock that does not wait for the holder
LockNoWait(c) ==
    /\ pc[c] = "lock"
    /\ mu' = c
    /\ pc' = [pc EXCEPT ![c] = "marshal"]
    /\ UNCHANGED <<networkType, conn, openConns, nDials, msg, bytesLeft,
                   idx, nChunks, msgId, connectCount, result, put, dgrams,
                   trace, writes>>
    /\ UNCHANGED notT

\* u.mu.Lock()
Lock(c) ==
    /\ pc[c] = "lock"
    /\ mu = Nil
    /\ mu' = c
    /\ pc' = [pc EXCEPT ![c] = "marshal"]
    /\ UNCHANGED <<networkType, conn, openConns, nDials, msg, bytesLeft,
                   idx, nChunks, msgId, connectCount, result, put, dgrams,
                   trace, writes>>
    /\ UNCHANGED notT

\* tcpWrite's prologue: bs = append(bs, 0); bytesLeft := len(bs)
EnterTcpWrite(c) ==
    /\ bytesLeft' = [bytesLeft EXCEPT ![c] = Len(msg[c].data) + 1]
    /\ put' = [put EXCEPT ![c] = <<>>]
    /\ trace' = [trace EXCEPT ![c] = Append(@, "send")]
    /\ writes' = [writes EXCEPT ![c] = 0]

\* data, err := json.Marshal(m), then the branch on u.networkType
Marshal(c) ==
    /\ pc[c] = "marshal"
    /\ \/ /\ result' = [result EXCEPT ![c] = ErrMarshal]
          /\ pc' = [pc EXCEPT ![c] = "ret"]
          /\ UNCHANGED <<bytesLeft, put, trace, writes>>
       \/ /\ networkType = TCP
          /\ EnterTcpWrite(c)
          /\ pc' = [pc EXCEPT ![c] = "tcpWrite1"]
          /\ UNCHANGED result
       \/ /\ networkType = UDP
          /\ pc' = [pc EXCEPT ![c] = "udpWrite"]
          /\ UNCHANGED <<result, bytesLeft, put, trace, writes>>
    /\ UNCHANGED <<networkType, mu, conn, openConns, nDials, msg, idx,
                   nChunks, msgId, connectCount, dgrams>>
    /\ UNCHANGED notT

\* ------------------------------------------------------- stream: tcpWrite
\* where SendMessage goes when a tcpWrite at position `at` returns errNetwork:
\* a SendMessage that reconnects and retries after every failure
OnWriteErrorRetryForever(at) == "tcpReconnect"

\* where SendMessage goes when a tcpWrite at position `at` returns errNetwork:
\* the first one is followed by tcpReconnect, the second one is returned
OnWriteError(at) == IF at = "tcpWrite1" THEN "tcpReconnect" ELSE "ret"

\* what conn.Write(bs) is offered by the loop of tcpWrite: the whole of bs
Offered(c) == Append(msg[c].data, Terminator)

\* one iteration of the loop of tcpWrite: n, err := u.conn.Write(bs)
TcpWriteStep(c) ==
    /\ pc[c] \in {"tcpWrite1", "tcpWrite2"}
    /\ writes[c] < MaxWrites
    /\ conn # NilConn
    /\ \E r \in StreamResults(Len(Offered(c))) :
          \* a connection that Close has closed accepts nothing
          /\ conn[1] \notin openConns => r.err /\ r.n = 0
          /\ put' = [put EXCEPT ![c] = @ \o SubSeq(Offered(c), 1, r.n)]
          /\ writes' = [writes EXCEPT ![c] = @ + 1]
          /\ IF r.err
             THEN /\ trace' = [trace EXCEPT ![c] = Append(@, "fail")]
                  /\ pc' = [pc EXCEPT ![c] = OnWriteError(pc[c])]
                  /\ result' = [result EXCEPT ![c] =
                                   IF OnWriteError(pc[c]) = "ret" THEN ErrWrite ELSE @]
                  /\ connectCount' = [connectCount EXCEPT ![c] = 0]
                  /\ UNCHANGED bytesLeft
             ELSE /\ bytesLeft' = [bytesLeft EXCEPT ![c] = @ - r.n]
                  /\ IF bytesLeft[c] - r.n = 0
                     THEN /\ pc' = [pc EXCEPT ![c] = "ret"]
                          /\ result' = [result EXCEPT ![c] = Ok]
                     ELSE UNCHANGED <<pc, result>>
                  /\ UNCHANGED <<trace, connectCount>>
    /\ UNCHANGED <<networkType, mu, conn, openConns, nDials, msg, idx,
                   nChunks, msgId, dgrams>>
    /\ UNCHANGED notT

\* a tcpReconnect that returns the error of the first failed dial
GiveUpAlways(retries, count) == TRUE

\* `if retries != -1 && connectCount >= retries { break }`
GiveUp(retries, count) == retries # -1 /\ count >= retries

\* one iteration of the loop of tcpReconnect(retries, interval):
\* u.conn, err = net.Dial(...)
TcpDial(c, retries) ==
    /\ pc[c] = "tcpReconnect"
    /\ LET r == IF retries = 0 THEN 1 ELSE retries
       IN  \/ \* the dial fails: u.conn is now nil
              /\ connectCount[c] < MaxDialFails
              /\ conn' = NilConn
              /\ connectCount' = [connectCount EXCEPT ![c] = @ + 1]
              /\ trace' = [trace EXCEPT ![c] = Append(@, "dialfail")]
              /\ IF GiveUp(r, connectCount[c] + 1)
                 THEN /\ pc' = [pc EXCEPT ![c] = "ret"]
                      /\ result' = [result EXCEPT ![c] = ErrWrite]
                 ELSE UNCHANGED <<pc, result>>
              /\ UNCHANGED <<openConns, nDials, bytesLeft, put, writes>>
           \/ \* the dial succeeds; SendMessage goes on to `return u.tcpWrite(data)`
              /\ nDials < MaxDials
              /\ conn' = <<nDials>>
              /\ openConns' = openConns \cup {nDials}
              /\ nDials' = nDials + 1
              /\ trace' = [trace EXCEPT ![c] = Append(Append(@, "dial"), "send")]
              /\ bytesLeft' = [bytesLeft EXCEPT ![c] = Len(msg[c].data) + 1]
              /\ put' = [put EXCEPT ![c] = <<>>]
              /\ writes' = [writes EXCEPT ![c] = 0]
              /\ pc' = [pc EXCEPT ![c] = "tcpWrite2"]
              /\ UNCHANGED <<connectCount, result>>
    /\ UNCHANGED <<networkType, mu, msg, idx, nChunks, msgId, dgrams>>
    /\ UNCHANGED notT

\* an Unlock that is not deferred: the error returns leave the lock held
UnlockOnSuccess(holder, c) == IF result[c] = Ok THEN Nil ELSE holder

\* defer u.mu.Unlock(): what u.mu holds after the caller c has unlocked it
Unlock(holder, c) == IF holder = c THEN Nil ELSE holder

\* SendMessage returns: the deferred u.mu.Unlock() runs and the locals of the
\* call are gone; result keeps what the call returned
Return(c) ==
    /\ pc[c] = "ret"
    /\ mu' = Unlock(mu, c)
    /\ pc' = [pc EXCEPT ![c] = "idle"]
    /\ msg' = [msg EXCEPT ![c] = NoMsg]
    /\ bytesLeft' = [bytesLeft EXCEPT ![c] = 0]
    /\ idx' = [idx EXCEPT ![c] = 0]
    /\ nChunks' = [nChunks EXCEPT ![c] = 0]
    /\ msgId' = [msgId EXCEPT ![c] = <<>>]
    /\ connectCount' = [connectCount EXCEPT ![c] = 0]
    /\ put' = [put EXCEPT ![c] = <<>>]
    /\ dgrams' = [dgrams EXCEPT ![c] = <<>>]
    /\ trace' = [trace EXCEPT ![c] = <<>>]
    /\ writes' = [writes EXCEPT ![c] = 0]
    /\ UNCHANGED <<networkType, conn, openConns, nDials, result>>
    /\ UNCHANGED notT

\* ------------------------------------------------- datagram: write(bs)
\* chunkCount := numChunks(bs); the 255 check; nChunks := uint8(chunkCount)
UdpWriteBegin(c) ==
    /\ pc[c] = "udpWrite"
    /\ LET chunkCount == numChunks(msg[c].zsize)
       IN  IF chunkCount > MaxChunkCount
           THEN /\ result' = [result EXCEPT ![c] = ErrTooLarge]
                /\ pc' = [pc EXCEPT ![c] = "ret"]
                /\ UNCHANGED nChunks
           ELSE /\ nChunks' = [nChunks EXCEPT ![c] = Uint8(chunkCount)]
                /\ pc' = [pc EXCEPT ![c] =
                             IF Uint8(chunkCount) = 1 THEN "udpSingle" ELSE "udpRand"]
                /\ UNCHANGED result
    /\ UNCHANGED <<networkType, mu, conn, openConns, nDials, msg, bytesLeft, idx, msgId, connectCount, put, dgrams, trace, writes>>
    /\ UNCHANGED notT

\* a conn.Write call of a datagram, as the connection sees it
Dgram(hdr, off, len, r) ==
    [hdr |-> hdr, off |-> off, len |-> len, size |-> Len(hdr) + len,
     n |-> r.n, err |-> r.err]

\* a check of the write result that overlooks short writes
WriteFailedErrOnly(r, len) == r.err

\* `if err != nil { return ... }; if n != len(buf.Bytes()) { return ... }`
WriteFailed(r, len) == r.err \/ r.n # len

\* nChunks == 1: n, err := u.conn.Write(bs)
UdpWriteSingle(c) ==
    /\ pc[c] = "udpSingle"
    /\ \E r \in DgramResults(msg[c].zsize) :
          /\ dgrams' = [dgrams EXCEPT ![c] =
                           Append(@, Dgram(<<>>, 0, msg[c].zsize, r))]
          /\ result' = [result EXCEPT ![c] =
                           IF r.err THEN ErrWrite
                           ELSE IF WriteFailed(r, msg[c].zsize) THEN ErrShort ELSE Ok]
    /\ pc' = [pc EXCEPT ![c] = "ret"]
    /\ UNCHANGED <<networkType, mu, conn, openConns, nDials, msg, bytesLeft, idx, nChunks, msgId, connectCount, put, trace, writes>>
    /\ UNCHANGED notT

\* msgId from rand.Reader; bytesLeft := len(bs); i := 0
UdpRand(c) ==
    /\ pc[c] = "udpRand"
    /\ \/ /\ result' = [result EXCEPT ![c] = ErrRand]
          /\ pc' = [pc EXCEPT ![c] = "ret"]
          /\ UNCHANGED <<msgId, bytesLeft, idx>>
       \/ /\ \E id \in MsgIds : msgId' = [msgId EXCEPT ![c] = id]
          /\ bytesLeft' = [bytesLeft EXCEPT ![c] = msg[c].zsize]
          /\ idx' = [idx EXCEPT ![c] = 0]
          /\ pc' = [pc EXCEPT ![c] = "udpLoop"]
          /\ UNCHANGED result
    /\ UNCHANGED <<networkType, mu, conn, openConns, nDials, msg, nChunks, connectCount, put, dgrams, trace, writes>>
    /\ UNCHANGED notT

\* the header the loop body builds for chunk i
ChunkHeader(id, i, n) == magicChunked \o id \o <<i, n>>

\* chunkLen := chunkedDataLen; if chunkLen > bytesLeft { chunkLen = bytesLeft }
ChunkLen(left) == IF chunkedDataLen > left THEN left ELSE chunkedDataLen

\* one iteration of `for i := uint8(0); i < nChunks; i++`
UdpWriteChunk(c) ==
    /\ pc[c] = "udpLoop"
    /\ idx[c] < nChunks[c]
    /\ LET chunkLen == ChunkLen(bytesLeft[c])
           off == idx[c] * chunkedDataLen
           hdr == ChunkHeader(msgId[c], idx[c], nChunks[c])
       IN  \E r \in DgramResults(Len(hdr) + chunkLen) :
              /\ dgrams' = [dgrams EXCEPT ![c] =
                               Append(@, Dgram(hdr, off, chunkLen, r))]
              /\ IF WriteFailed(r, Len(hdr) + chunkLen)
                 THEN /\ result' = [result EXCEPT ![c] =
                                       IF r.err THEN ErrWrite ELSE ErrShort]
                      /\ pc' = [pc EXCEPT ![c] = "ret"]
                      /\ UNCHANGED <<bytesLeft, idx>>
                 ELSE /\ bytesLeft' = [bytesLeft EXCEPT ![c] = @ - chunkLen]
                      /\ idx' = [idx EXCEPT ![c] = Uint8(@ + 1)]
                      /\ UNCHANGED <<result, pc>>
    /\ UNCHANGED <<networkType, mu, conn, openConns, nDials, msg, nChunks, msgId, connectCount, put, trace, writes>>
    /\ UNCHANGED notT

\* the loop is over: `if bytesLeft != 0` error, else nil
UdpWriteEnd(c) ==
    /\ pc[c] = "udpLoop"
    /\ ~(idx[c] < nChunks[c])
    /\ result' = [result EXCEPT ![c] = IF bytesLeft[c] # 0 THEN ErrLeft ELSE Ok]
    /\ pc' = [pc EXCEPT ![c] = "ret"]
    /\ UNCHANGED <<networkType, mu, conn, openConns, nDials, msg, bytesLeft, idx, nChunks, msgId, connectCount, put, dgrams,
                   trace, writes>>
    /\ UNCHANGED notT

\* ======================================================================
\* BlockingList and the Hook
\* ======================================================================
MaxRecords == 3      \* records the producers log in all

\* goroutines calling Hook.Fire
Producers == {"p1", "p2"}
\* the goroutines newHook starts (500 in the source, two here)
Workers == {"w1", "w2"}

\* make(chan struct{}, 1)
ChCap == 1

NoRec == 0

\* what sendEntry returns: nil, the error of json.Marshal, or a network error
SendResults == {Ok, ErrMarshal, ErrWrite}

\* select { case bl.ch <- struct{}{}: default: }
Signal(n) == IF n < ChCap THEN n + 1 ELSE n

\* a FrontBlock that takes the element at the back
TakeBack(l) == [value |-> l[Len(l)], rest |-> SubSeq(l, 1, Len(l) - 1)]

\* e := bl.list.Front(); bl.list.Remove(e)
TakeFront(l) == [value |-> Head(l), rest |-> Tail(l)]

\* NewBlockingList, and the worker goroutines at the top of their loop
QInit(producers, workers) ==
    /\ list = <<>>
    /\ ch = 0
    /\ blMu = Nil
    /\ ppc = [p \in Producers |-> IF p \in producers THEN "idle" ELSE "off"]
    /\ prec = [p \in Producers |-> NoRec]
    /\ wpc = [w \in Workers |-> IF w \in workers THEN "fb_lock" ELSE "off"]
    /\ wcur = [w \in Workers |-> NoRec]
    /\ woken = [w \in Workers |-> FALSE]
    /\ nextRec = 1
    /\ pushed = <<>>
    /\ popped = <<>>
    /\ sends = <<>>
    /\ printed = <<>>
    /\ returned = {}

\* Hook.Fire builds the entry; `if u.synchronous` it calls sendEntry, else
\* PushBack
Fire(p) ==
    /\ ppc[p] = "idle"
    /\ nextRec <= MaxRecords
    /\ prec' = [prec EXCEPT ![p] = nextRec]
    /\ nextRec' = nextRec + 1
    /\ ppc' = [ppc EXCEPT ![p] = IF synchronous THEN "sync_send" ELSE "push_lock"]
    /\ UNCHANGED <<list, ch, blMu, wpc, wcur, woken, pushed, popped, sends, printed>>
    /\ UNCHANGED <<returned, kvars>>
    /\ UNCHANGED notQ

\* PushBack: bl.mu.Lock()
PushLock(p) ==
    /\ ppc[p] = "push_lock"
    /\ blMu = Nil
    /\ blMu' = p
    /\ ppc' = [ppc EXCEPT ![p] = "push_add"]
    /\ UNCHANGED <<list, ch, prec, wpc, wcur, woken, nextRec, pushed, popped,
                   sends, printed>>
    /\ UNCHANGED <<returned, kvars>>
    /\ UNCHANGED notQ

\* PushBack: bl.list.PushBack(v)
PushAppend(p) ==
    /\ ppc[p] = "push_add"
    /\ list' = Append(list, prec[p])
    /\ pushed' = Append(pushed, prec[p])
    /\ ppc' = [ppc EXCEPT ![p] = "push_sig"]
    /\ UNCHANGED <<ch, blMu, prec, wpc, wcur, woken, nextRec, popped, sends, printed>>
    /\ UNCHANGED <<returned, kvars>>
    /\ UNCHANGED notQ

\* PushBack: the select on bl.ch, then the deferred bl.mu.Unlock(); Fire
\* returns nil
PushSignal(p) ==
    /\ ppc[p] = "push_sig"
    /\ ch' = Signal(ch)
    /\ blMu' = Nil
    /\ ppc' = [ppc EXCEPT ![p] = "idle"]
    /\ prec' = [prec EXCEPT ![p] = NoRec]
    /\ returned' = returned \cup {[rec |-> prec[p], res |-> Ok]}
    /\ UNCHANGED <<list, wpc, wcur, woken, nextRec, pushed, popped, sends, printed>>
    /\ UNCHANGED kvars
    /\ UNCHANGED notQ

\* FrontBlock: bl.mu.Lock()
FrontLock(w) ==
    /\ wpc[w] = "fb_lock"
    /\ blMu = Nil
    /\ blMu' = w
    /\ wpc' = [wpc EXCEPT ![w] = "fb_check"]
    /\ UNCHANGED <<list, ch, ppc, prec, wcur, woken, nextRec, pushed, popped,
                   sends, printed>>
    /\ UNCHANGED <<returned, kvars>>
    /\ UNCHANGED notQ

\* FrontBlock, holding the lock: remove and return the front, or unlock and
\* go to wait on bl.ch
FrontCheck(w) ==
    /\ wpc[w] = "fb_check"
    /\ IF list # <<>>
       THEN /\ list' = TakeFront(list).rest
            /\ wcur' = [wcur EXCEPT ![w] = TakeFront(list).value]
            /\ popped' = Append(popped, [rec |-> TakeFront(list).value, by |-> w])
            /\ wpc' = [wpc EXCEPT ![w] = "send"]
       ELSE /\ wpc' = [wpc EXCEPT ![w] = "fb_wait"]
            /\ UNCHANGED <<list, wcur, popped>>
    /\ blMu' = Nil
    /\ woken' = [woken EXCEPT ![w] = FALSE]
    /\ UNCHANGED <<ch, ppc, prec, nextRec, pushed, sends, printed>>
    /\ UNCHANGED <<returned, kvars>>
    /\ UNCHANGED notQ

\* FrontBlock: <-bl.ch
FrontWait(w) ==
    /\ wpc[w] = "fb_wait"
    /\ ch > 0
    /\ ch' = ch - 1
    /\ woken' = [woken EXCEPT ![w] = TRUE]
    /\ wpc' = [wpc EXCEPT ![w] = "fb_lock"]
    /\ UNCHANGED <<list, blMu, ppc, prec, wcur, nextRec, pushed, popped, sends, printed>>
    /\ UNCHANGED <<returned, kvars>>
    /\ UNCHANGED notQ

\* the worker loop: hook.sendEntry(entry); an error is printed; next iteration
WorkerSend(w) ==
    /\ wpc[w] = "send"
    /\ \E res \in SendResults :
          /\ sends' = Append(sends, [rec |-> wcur[w], by |-> w, res |-> res])
          /\ printed' = IF res = Ok THEN printed ELSE Append(printed, wcur[w])
    /\ wcur' = [wcur EXCEPT ![w] = NoRec]
    /\ wpc' = [wpc EXCEPT ![w] = "fb_lock"]
    /\ UNCHANGED <<list, ch, blMu, ppc, prec, woken, nextRec, pushed, popped>>
    /\ UNCHANGED <<returned, kvars>>
    /\ UNCHANGED notQ

\* ------------------------------------------ Hook: synchronous mode, flush
\* u.queue.Len() has not been called
NoLen == -1

\* the goroutine calling FlushAndClose
Flusher == "f"

\* newHook(synchronous, ...); one goroutine may call FlushAndClose
KInit(modes, flusher) ==
    /\ synchronous \in modes
    /\ flpc = IF flusher THEN "idle" ELSE "off"
    /\ lenSeen = NoLen
    /\ flushAt = 0
    /\ closed = FALSE

\* a Fire that swallows the error of sendEntry
FireResultNil(err) == Ok

\* `if err := u.sendEntry(gEntry); err != nil { return err }` ... `return nil`
FireResult(err) == IF err # Ok THEN err ELSE Ok

\* the result sendEntry returned for record r
SendResultOf(r) ==
    sends[CHOOSE i \in 1..Len(sends) : sends[i].rec = r].res

\* Fire in synchronous mode: u.sendEntry(gEntry) returns
SyncSend(p) ==
    /\ ppc[p] = "sync_send"
    /\ \E res \in SendResults :
          sends' = Append(sends, [rec |-> prec[p], by |-> p, res |-> res])
    /\ ppc' = [ppc EXCEPT ![p] = "sync_ret"]
    /\ UNCHANGED <<list, ch, blMu, prec, wpc, wcur, woken, nextRec, pushed, popped,
                   printed, returned>>
    /\ UNCHANGED kvars
    /\ UNCHANGED notQ

\* Fire in synchronous mode returns
SyncReturn(p) ==
    /\ ppc[p] = "sync_ret"
    /\ returned' = returned \cup
                      {[rec |-> prec[p], res |-> FireResult(SendResultOf(prec[p]))]}
    /\ prec' = [prec EXCEPT ![p] = NoRec]
    /\ ppc' = [ppc EXCEPT ![p] = "idle"]
    /\ UNCHANGED <<list, ch, blMu, wpc, wcur, woken, nextRec, pushed, popped,
                   sends, printed>>
    /\ UNCHANGED kvars
    /\ UNCHANGED notQ

\* a FlushAndClose that does not look at the queue
QueueEmptyAlways(n) == TRUE

\* `if u.queue.Len() == 0 { break }`
QueueEmpty(n) == n = 0

\* FlushAndClose is called: `if !u.synchronous` it polls the queue length
FlushCall ==
    /\ flpc = "idle"
    /\ flushAt' = Len(pushed)
    /\ flpc' = IF synchronous THEN "close" ELSE "len_lock"
    /\ UNCHANGED <<synchronous, lenSeen, closed>>
    /\ UNCHANGED qvars
    /\ UNCHANGED notQ

\* u.queue.Len(): bl.mu.Lock()
FlushLenLock ==
    /\ flpc = "len_lock"
    /\ blMu = Nil
    /\ blMu' = Flusher
    /\ flpc' = "len"
    /\ UNCHANGED <<synchronous, lenSeen, flushAt, closed>>
    /\ UNCHANGED <<list, ch, ppc, prec, wpc, wcur, woken, nextRec, pushed, popped,
                   sends, printed, returned>>
    /\ UNCHANGED notQ

\* u.queue.Len() returns bl.list.Len() and unlocks; 0 ends the loop, anything
\* else is followed by a sleep and the next poll
FlushLen ==
    /\ flpc = "len"
    /\ lenSeen' = Len(list)
    /\ blMu' = Nil
    /\ flpc' = IF QueueEmpty(Len(list)) THEN "close" ELSE "len_lock"
    /\ UNCHANGED <<synchronous, flushAt, closed>>
    /\ UNCHANGED <<list, ch, ppc, prec, wpc, wcur, woken, nextRec, pushed, popped,
                   sends, printed, returned>>
    /\ UNCHANGED notQ

\* return u.backend.Close()
BackendClose ==
    /\ flpc = "close"
    /\ closed' = TRUE
    /\ flpc' = "done"
    /\ UNCHANGED <<synchronous, lenSeen, flushAt>>
    /\ UNCHANGED qvars
    /\ UNCHANGED notQ

\* ======================================================================
\* ObjectPool
\* ======================================================================
MaxCap == 2          \* the largest capacity NewObjectPool is called with
MaxFactoryFails == 1 \* failed factory calls the model follows

\* goroutines calling Get and Put: one more than the largest capacity
Clients == {"g1", "g2", "g3"}

NoObj == 0

\* a test that lets one object too many be created
CanCreateOneMore(count, cap) == count <= cap

\* Get: `if p.createdCount < p.capacity`
CanCreate(count, cap) == count < cap

\* NewObjectPool(factory, capacity)
OInit(caps, clients) ==
    /\ capArg \in caps
    /\ capacity = IF capArg <= 0 THEN 1 ELSE capArg
    /\ createdCount = 0
    /\ poMu = Nil
    /\ poList = <<>>
    /\ poCh = 0
    /\ poBlMu = Nil
    /\ gpc = [g \in Clients |-> IF g \in clients THEN "idle" ELSE "off"]
    /\ held = [g \in Clients |-> NoObj]
    /\ factoryCalls = [ok |-> 0, failed |-> 0]

\* a client calls Get
Get(g) ==
    /\ gpc[g] = "idle"
    /\ gpc' = [gpc EXCEPT ![g] = "get_lock"]
    /\ UNCHANGED <<capArg, capacity, createdCount, poMu, poList, poCh, poBlMu, held,
                   factoryCalls>>
    /\ UNCHANGED notO

\* Get: p.mu.Lock(), then the test of createdCount
GetLock(g) ==
    /\ gpc[g] = "get_lock"
    /\ poMu = Nil
    /\ poMu' = g
    /\ gpc' = [gpc EXCEPT ![g] =
                  IF CanCreate(createdCount, capacity) THEN "get_factory" ELSE "fb_lock"]
    /\ UNCHANGED <<capArg, capacity, createdCount, poList, poCh, poBlMu, held,
                   factoryCalls>>
    /\ UNCHANGED notO

\* Get: one iteration of the factory loop
GetFactory(g) ==
    /\ gpc[g] = "get_factory"
    /\ \/ \* the factory fails: print, sleep, continue
          /\ factoryCalls.failed < MaxFactoryFails
          /\ factoryCalls' = [factoryCalls EXCEPT !.failed = @ + 1]
          /\ UNCHANGED <<createdCount, poMu, gpc, held>>
       \/ \* the factory returns an object: count it, unlock, return it
          /\ factoryCalls' = [factoryCalls EXCEPT !.ok = @ + 1]
          /\ createdCount' = createdCount + 1
          /\ held' = [held EXCEPT ![g] = createdCount + 1]
          /\ poMu' = Nil
          /\ gpc' = [gpc EXCEPT ![g] = "holding"]
    /\ UNCHANGED <<capArg, capacity, poList, poCh, poBlMu>>
    /\ UNCHANGED notO

\* Get -> p.list.FrontBlock(): bl.mu.Lock()
GetFrontLock(g) ==
    /\ gpc[g] = "fb_lock"
    /\ poBlMu = Nil
    /\ poBlMu' = g
    /\ gpc' = [gpc EXCEPT ![g] = "fb_check"]
    /\ UNCHANGED <<capArg, capacity, createdCount, poMu, poList, poCh, held,
                   factoryCalls>>
    /\ UNCHANGED notO

\* Get -> FrontBlock, holding the list lock: remove and return the front (Get
\* returns it and unlocks p.mu), or unlock and go to wait on bl.ch
GetFrontCheck(g) ==
    /\ gpc[g] = "fb_check"
    /\ IF poList # <<>>
       THEN /\ poList' = TakeFront(poList).rest
            /\ held' = [held EXCEPT ![g] = TakeFront(poList).value]
            /\ poMu' = Nil
            /\ gpc' = [gpc EXCEPT ![g] = "holding"]
       ELSE /\ gpc' = [gpc EXCEPT ![g] = "fb_wait"]
            /\ UNCHANGED <<poList, held, poMu>>
    /\ poBlMu' = Nil
    /\ UNCHANGED <<capArg, capacity, createdCount, poCh, factoryCalls>>
    /\ UNCHANGED notO

\* Get -> FrontBlock: <-bl.ch
GetFrontWait(g) ==
    /\ gpc[g] = "fb_wait"
    /\ poCh > 0
    /\ poCh' = poCh - 1
    /\ gpc' = [gpc EXCEPT ![g] = "fb_lock"]
    /\ UNCHANGED <<capArg, capacity, createdCount, poMu, poList, poBlMu, held,
                   factoryCalls>>
    /\ UNCHANGED notO

\* a client calls Put(obj) with the object it holds -> p.list.PushBack: bl.mu.Lock()
PutLock(g) ==
    /\ gpc[g] = "holding"
    /\ poBlMu = Nil
    /\ poBlMu' = g
    /\ gpc' = [gpc EXCEPT ![g] = "put_add"]
    /\ UNCHANGED <<capArg, capacity, createdCount, poMu, poList, poCh, held,
                   factoryCalls>>
    /\ UNCHANGED notO

\* Put -> PushBack: bl.list.PushBack(obj)
PutAppend(g) ==
    /\ gpc[g] = "put_add"
    /\ poList' = Append(poList, held[g])
    /\ held' = [held EXCEPT ![g] = NoObj]
    /\ gpc' = [gpc EXCEPT ![g] = "put_sig"]
    /\ UNCHANGED <<capArg, capacity, createdCount, poMu, poCh, poBlMu, factoryCalls>>
    /\ UNCHANGED notO

\* Put -> PushBack: the select on bl.ch, then the deferred bl.mu.Unlock()
PutSignal(g) ==
    /\ gpc[g] = "put_sig"
    /\ poCh' = Signal(poCh)
    /\ poBlMu' = Nil
    /\ gpc' = [gpc EXCEPT ![g] = "idle"]
    /\ UNCHANGED <<capArg, capacity, createdCount, poMu, poList, held, factoryCalls>>
    /\ UNCHANGED notO

\* ======================================================================
\* UdpHook in asynchronous mode
\* ======================================================================
\* the capacity of u.buf is the package variable bufMaxSize (8192 unless the
\* program sets it); the model bounds it so that a full buffer is reached
MaxBuf == 2

bufMaxSize == MaxBuf

\* `if !synchronous { buf = make(...); wg = &sync.WaitGroup{}; mu = &sync.RWMutex{} }`:
\* in synchronous mode u.buf, u.wg and u.mu stay nil
Created(sync) == ~sync

\* newUdpHook(synchronous, ...): the buffer, the wait group, the lock and the
\* worker goroutine of the asynchronous mode
HInit(modes, producers, on) ==
    /\ hsync \in modes
    /\ hpanic = FALSE
    /\ fsnap = {}
    /\ buf = <<>>
    /\ wg = 0
    /\ rwReaders = 0
    /\ rwWriter = Nil
    /\ hpc = [p \in Producers |-> IF p \in producers THEN "idle" ELSE "off"]
    /\ hrec = [p \in Producers |-> NoRec]
    /\ fpc = IF on THEN "idle" ELSE "off"
    /\ upc = IF on /\ ~hsync THEN "recv" ELSE "off"
    /\ ucur = NoRec
    /\ hNext = 1
    /\ fired = {}
    /\ done = {}

\* a producer calls Fire(entry)
UdpFire(p) ==
    /\ hpc[p] = "idle"
    /\ hNext <= MaxRecords
    /\ hrec' = [hrec EXCEPT ![p] = hNext]
    /\ hNext' = hNext + 1
    /\ hpc' = [hpc EXCEPT ![p] = "rlock"]
    /\ UNCHANGED <<buf, wg, rwReaders, rwWriter, fpc, upc, ucur, fired, done>>
    /\ UNCHANGED <<hsync, hpanic, fsnap>>
    /\ UNCHANGED notH

\* Fire: u.mu.RLock(), whatever the mode; it waits while a Lock is held or
\* pending, and it dereferences nil when u.mu was not created
UdpFireRLock(p) ==
    /\ hpc[p] = "rlock"
    /\ IF Created(hsync)
       THEN /\ rwWriter = Nil
            /\ rwReaders' = rwReaders + 1
            /\ hpc' = [hpc EXCEPT ![p] = "add"]
            /\ UNCHANGED <<hpanic, fpc>>
       ELSE /\ hpanic' = TRUE
            /\ hpc' = [q \in Producers |-> "crashed"]
            /\ fpc' = "crashed"
            /\ UNCHANGED rwReaders
    /\ UNCHANGED <<buf, wg, rwWriter, hrec, upc, ucur, hNext, fired, done>>
    /\ UNCHANGED <<hsync, fsnap>>
    /\ UNCHANGED notH

\* Fire: u.wg.Add(1)
UdpFireAdd(p) ==
    /\ hpc[p] = "add"
    /\ wg' = wg + 1
    /\ hpc' = [hpc EXCEPT ![p] = "send"]
    /\ UNCHANGED <<buf, rwReaders, rwWriter, hrec, fpc, upc, ucur, hNext, fired, done>>
    /\ UNCHANGED <<hsync, hpanic, fsnap>>
    /\ UNCHANGED notH

\* Fire: u.buf <- gEntry; it waits while the channel is full
UdpFireSend(p) ==
    /\ hpc[p] = "send"
    /\ Len(buf) < bufMaxSize
    /\ buf' = Append(buf, hrec[p])
    /\ hpc' = [hpc EXCEPT ![p] = "runlock"]
    /\ UNCHANGED <<wg, rwReaders, rwWriter, hrec, fpc, upc, ucur, hNext, fired, done>>
    /\ UNCHANGED <<hsync, hpanic, fsnap>>
    /\ UNCHANGED notH

\* Fire: return nil, the deferred u.mu.RUnlock() runs
UdpFireReturn(p) ==
    /\ hpc[p] = "runlock"
    /\ rwReaders' = rwReaders - 1
    /\ fired' = fired \cup {hrec[p]}
    /\ hrec' = [hrec EXCEPT ![p] = NoRec]
    /\ hpc' = [hpc EXCEPT ![p] = "idle"]
    /\ UNCHANGED <<buf, wg, rwWriter, fpc, upc, ucur, hNext, done>>
    /\ UNCHANGED <<hsync, hpanic, fsnap>>
    /\ UNCHANGED notH

\* the worker: entry := <-hook.buf
UdpWorkerRecv ==
    /\ upc = "recv"
    /\ buf # <<>>
    /\ ucur' = Head(buf)
    /\ buf' = Tail(buf)
    /\ upc' = "send"
    /\ UNCHANGED <<wg, rwReaders, rwWriter, hpc, hrec, fpc, hNext, fired, done>>
    /\ UNCHANGED <<hsync, hpanic, fsnap>>
    /\ UNCHANGED notH

\* the worker: hook.sendEntry(entry) returns (an error is printed)
UdpWorkerSend ==
    /\ upc = "send"
    /\ done' = done \cup {ucur}
    /\ upc' = "wgdone"
    /\ UNCHANGED <<buf, wg, rwReaders, rwWriter, hpc, hrec, fpc, ucur, hNext, fired>>
    /\ UNCHANGED <<hsync, hpanic, fsnap>>
    /\ UNCHANGED notH

\* the worker: hook.wg.Done()
UdpWorkerDone ==
    /\ upc = "wgdone"
    /\ wg' = wg - 1
    /\ ucur' = NoRec
    /\ upc' = "recv"
    /\ UNCHANGED <<buf, rwReaders, rwWriter, hpc, hrec, fpc, hNext, fired, done>>
    /\ UNCHANGED <<hsync, hpanic, fsnap>>
    /\ UNCHANGED notH

\* Flush on a synchronous hook: `if !u.synchronous` is false, it returns
FlushSync ==
    /\ fpc = "idle"
    /\ hsync
    /\ fsnap' = fired
    /\ fpc' = "flushed"
    /\ UNCHANGED <<buf, wg, rwReaders, rwWriter, hpc, hrec, upc, ucur, hNext, fired, done>>
    /\ UNCHANGED <<hsync, hpanic>>
    /\ UNCHANGED notH

\* Flush: u.mu.Lock() is called: from now on no RLock is granted
FlushLock ==
    /\ fpc = "idle"
    /\ ~hsync
    /\ rwWriter = Nil
    /\ rwWriter' = "waiting"
    /\ fpc' = "lock"
    /\ fsnap' = fired
    /\ UNCHANGED <<buf, wg, rwReaders, hpc, hrec, upc, ucur, hNext, fired, done>>
    /\ UNCHANGED <<hsync, hpanic>>
    /\ UNCHANGED notH

\* a Wait that returns whatever the counter is
WaitReturnsAlways(n) == TRUE

\* u.wg.Wait() returns when the counter is 0
WaitReturns(n) == n = 0

\* Flush: u.mu.Lock() returns when the read locks are released
FlushLocked ==
    /\ fpc = "lock"
    /\ rwReaders = 0
    /\ rwWriter' = "held"
    /\ fpc' = "wait"
    /\ UNCHANGED <<buf, wg, rwReaders, hpc, hrec, upc, ucur, hNext, fired, done>>
    /\ UNCHANGED <<hsync, hpanic, fsnap>>
    /\ UNCHANGED notH

\* Flush: u.wg.Wait() returns, the deferred u.mu.Unlock() runs
FlushReturn ==
    /\ fpc = "wait"
    /\ WaitReturns(wg)
    /\ rwWriter' = Nil
    /\ fpc' = "idle"
    /\ UNCHANGED <<buf, wg, rwReaders, hpc, hrec, upc, ucur, hNext, fired, done>>
    /\ UNCHANGED <<hsync, hpanic, fsnap>>
    /\ UNCHANGED notH

\* ======================================================================
\* redisBackend: the durable queue
\* ======================================================================
MaxMsgs == 2         \* messages SendMessage is called with in all
MaxPushFails == 2    \* failed pushes the model follows inside one SendMessage
MaxHandles == 3      \* calls of the handler in all

\* the two redisBackend implementations
Asynq == "asynq"
GoRedis == "goredis"

NoPayload == <<"none">>
\* the empty string as a list element
EmptyPayload == <<>>

ErrPush == "push"
ErrDecode == "decode"
ErrHandler == "handler"

\* json.Marshal, gzip, base64.RawStdEncoding.EncodeToString
Encode(m) == <<"b64", <<"gzip", <<"json", m>>>>>>

\* each decoding step: the value, or a failure
Failed == [ok |-> FALSE, v |-> <<>>]
Unwrap(p, tag) ==
    IF Len(p) = 2 /\ p[1] = tag THEN [ok |-> TRUE, v |-> p[2]] ELSE Failed

\* base64.RawStdEncoding.DecodeString, gzip.NewReader and io.ReadAll,
\* json.Unmarshal: the message, or the first failure
Decode(p) ==
    LET a == Unwrap(p, "b64")
        b == IF a.ok THEN Unwrap(a.v, "gzip") ELSE Failed
    IN  IF b.ok THEN Unwrap(b.v, "json") ELSE Failed

\* list elements that SendMessage did not produce: the empty string, text
\* that is not base64, base64 that is not gzip, gzip that is not JSON
ForeignPayloads ==
    { EmptyPayload, <<"raw">>, <<"b64", <<"raw">>>>, <<"b64", <<"gzip", <<"raw">>>>>> }

\* NewRedisBackend; the list holds what other programs left in it; the
\* go-redis variant is the one with LaunchConsumeSync (the asynq variant hands
\* its tasks to the asynq server)
RInit(variants, sender, consumer) ==
    /\ rvariant \in variants
    /\ rq \in {<<>>} \cup { <<f>> : f \in ForeignPayloads }
    /\ rpc = IF sender THEN "idle" ELSE "off"
    /\ rmsg = 0
    /\ rres = None
    /\ pushFails = 0
    /\ nextMsg = 1
    /\ cpc = IF consumer /\ rvariant = GoRedis THEN "pop" ELSE "off"
    /\ ccur = NoPayload
    /\ cmsg = 0
    /\ cres = None
    /\ handled = <<>>

\* SendMessage(message): json.Marshal and the compression
RedisSend ==
    /\ rpc = "idle"
    /\ nextMsg <= MaxMsgs
    /\ nextMsg' = nextMsg + 1
    /\ rmsg' = nextMsg
    /\ pushFails' = 0
    /\ \/ rpc' = "ret" /\ rres' = ErrMarshal
       \/ rpc' = "push" /\ rres' = None
    /\ UNCHANGED <<rvariant, rq, cpc, ccur, cmsg, cres, handled>>
    /\ UNCHANGED notR

\* where SendMessage goes when the push fails: the asynq variant prints,
\* sleeps a second and pushes again; the go-redis variant returns the error
OnPushError(variant) == IF variant = Asynq THEN "push" ELSE "ret"

\* r.client.Enqueue(...) / r.redis.RPush(ctx, "graylog", b64Data)
RedisPush ==
    /\ rpc = "push"
    /\ \/ /\ rq' = Append(rq, Encode(rmsg))
          /\ rres' = Ok
          /\ rpc' = "ret"
          /\ UNCHANGED pushFails
       \/ /\ pushFails < MaxPushFails
          /\ pushFails' = pushFails + 1
          /\ rpc' = OnPushError(rvariant)
          /\ rres' = IF OnPushError(rvariant) = "ret" THEN ErrPush ELSE rres
          /\ UNCHANGED rq
    /\ UNCHANGED <<rvariant, rmsg, nextMsg, cpc, ccur, cmsg, cres, handled>>
    /\ UNCHANGED notR

\* SendMessage returns
RedisReturn ==
    /\ rpc = "ret"
    /\ rpc' = "idle"
    /\ pushFails' = 0
    /\ UNCHANGED <<rvariant, rq, rmsg, rres, nextMsg, cpc, ccur, cmsg, cres, handled>>
    /\ UNCHANGED notR

\* LaunchConsumeSync: BLPop(ctx, 0, "graylog"); an error or an empty element
\* is followed by a sleep and the next BLPop
ConsumePop ==
    /\ cpc = "pop"
    /\ \/ \* the pop fails
          UNCHANGED <<rq, ccur, cpc>>
       \/ /\ rq # <<>>
          /\ rq' = Tail(rq)
          /\ IF Head(rq) = EmptyPayload
             THEN UNCHANGED <<ccur, cpc>>
             ELSE ccur' = Head(rq) /\ cpc' = "decode"
    /\ UNCHANGED <<rvariant, rpc, rmsg, rres, pushFails, nextMsg, cmsg, cres, handled>>
    /\ UNCHANGED notR

\* LaunchConsumeSync: base64, gzip, json.Unmarshal; a failure is returned
ConsumeDecode ==
    /\ cpc = "decode"
    /\ IF Decode(ccur).ok
       THEN /\ cmsg' = Decode(ccur).v
            /\ cpc' = "handle"
            /\ UNCHANGED cres
       ELSE /\ cres' = ErrDecode
            /\ cpc' = "returned"
            /\ UNCHANGED cmsg
    /\ UNCHANGED <<rvariant, rq, rpc, rmsg, rres, pushFails, nextMsg, ccur, handled>>
    /\ UNCHANGED notR

\* `return err` after the handler has failed
AfterHandlerError == "returned"

\* LaunchConsumeSync: f(&gelfMessage); on failure the payload is pushed back
\* (the result of that RPush is not looked at) and the error is returned
ConsumeHandle ==
    /\ cpc = "handle"
    /\ Len(handled) < MaxHandles
    /\ \/ /\ handled' = Append(handled, [msg |-> cmsg, ok |-> TRUE])
          /\ cpc' = "pop"
          /\ UNCHANGED <<rq, cres>>
       \/ /\ handled' = Append(handled, [msg |-> cmsg, ok |-> FALSE])
          /\ \/ rq' = Append(rq, ccur)
             \/ UNCHANGED rq
          /\ cpc' = AfterHandlerError
          /\ cres' = IF AfterHandlerError = "returned" THEN ErrHandler ELSE cres
    /\ UNCHANGED <<rvariant, rpc, rmsg, rres, pushFails, nextMsg, ccur, cmsg>>
    /\ UNCHANGED notR

\* the program calls LaunchConsumeSync again after it has returned
ConsumeAgain ==
    /\ cpc = "returned"
    /\ cpc' = "pop"
    /\ cres' = None
    /\ ccur' = NoPayload
    /\ cmsg' = 0
    /\ UNCHANGED <<rvariant, rq, rpc, rmsg, rres, pushFails, nextMsg, handled>>
    /\ UNCHANGED notR

\* ======================================================================
\* GELFMessage.UnmarshalJSON
\* ======================================================================
MaxKeys == 2         \* keys of the JSON object given to UnmarshalJSON

\* the JSON types as json.Unmarshal puts them in a map[string]interface{}:
\* string, float64, bool, nil
JsonTypes == {"string", "number", "bool", "null"}

StringFields == {"version", "host", "short_message", "full_message", "facility", "file"}
NumberFields == {"timestamp", "level", "line"}
FixedFields == StringFields \cup NumberFields
UnderscoreKeys == {"_a"}
EmptyKey == ""
Keys == FixedFields \cup UnderscoreKeys \cup {"other", EmptyKey}

\* the type the switch asserts for a fixed field: v.(string) or v.(float64)
FieldType(k) == IF k \in StringFields THEN "string" ELSE "number"

Panic == "panic"
ErrJson == "json"

\* the objects: at most MaxKeys keys, each with a value of some JSON type
JsonObjects ==
    UNION { [K -> JsonTypes] : K \in { S \in SUBSET Keys : Cardinality(S) <= MaxKeys } }

NoObject == [k \in {} |-> "null"]

\* one call UnmarshalJSON(data) on a zero GELFMessage
UInit(on) ==
    /\ uobj \in (IF on THEN BOOLEAN ELSE {FALSE})
    /\ uin \in (IF on /\ uobj THEN JsonObjects ELSE {NoObject})
    /\ jpc = IF on THEN "parse" ELSE "off"
    /\ uleft = {}
    /\ uextra = {}
    /\ ufields = {}
    /\ ures = None

\* json.Unmarshal(data, &i) into a map: an error for anything but an object
UnmarshalParse ==
    /\ jpc = "parse"
    /\ IF uobj
       THEN jpc' = "loop" /\ uleft' = DOMAIN uin /\ UNCHANGED ures
       ELSE jpc' = "done" /\ ures' = ErrJson /\ UNCHANGED uleft
    /\ UNCHANGED <<uobj, uin, uextra, ufields>>
    /\ UNCHANGED notU

\* what one iteration of `for k, v := range i` does with key k of type t:
\* k[0] panics on the empty key; a key starting with '_' goes to m.Extra; a
\* fixed field is assigned through a type assertion, which panics when the
\* value has another type; any other key is skipped
Visit(k, t) ==
    IF k = EmptyKey THEN Panic
    ELSE IF k \in UnderscoreKeys THEN "extra"
    ELSE IF k \in FixedFields THEN (IF t = FieldType(k) THEN "field" ELSE Panic)
    ELSE "skip"

\* one iteration of the loop, in the order the map happens to be ranged over
UnmarshalVisit ==
    /\ jpc = "loop"
    /\ \E k \in uleft :
          /\ uleft' = uleft \ {k}
          /\ uextra' = IF Visit(k, uin[k]) = "extra" THEN uextra \cup {k} ELSE uextra
          /\ ufields' = IF Visit(k, uin[k]) = "field" THEN ufields \cup {k} ELSE ufields
          /\ IF Visit(k, uin[k]) = Panic
             THEN jpc' = "done" /\ ures' = Panic
             ELSE UNCHANGED <<jpc, ures>>
    /\ UNCHANGED <<uobj, uin>>
    /\ UNCHANGED notU

\* the loop is over: return nil
UnmarshalReturn ==
    /\ jpc = "loop"
    /\ uleft = {}
    /\ jpc' = "done"
    /\ ures' = Ok
    /\ UNCHANGED <<uobj, uin, uleft, uextra, ufields>>
    /\ UNCHANGED notU

\* ======================================================================
\* NewGelfBackend
\* ======================================================================
\* addresses, character by character
PrefixTcp == <<"t", "c", "p", ":", "/", "/">>
PrefixUdp == <<"u", "d", "p", ":", "/", "/">>
HostPort == <<"h", ":", "1">>

Addrs ==
    { PrefixTcp \o HostPort,
      PrefixUdp \o HostPort,
      <<"T", "C", "P", ":", "/", "/">> \o HostPort,
      <<"h", "t", "t", "p", ":", "/", "/">> \o HostPort,
      <<"t", "c", "p", ":", "/">>,
      <<"x">> \o PrefixTcp \o HostPort,
      HostPort,
      <<>> }

ErrProtocol == "invalid protocol"
ErrDial == "dial"

\* a prefix test that accepts every address
HasPrefixAlways(str, prefix) == TRUE

\* strings.HasPrefix
HasPrefix(str, prefix) ==
    Len(str) >= Len(prefix) /\ SubSeq(str, 1, Len(prefix)) = prefix

\* strings.TrimPrefix
TrimPrefix(str, prefix) ==
    IF HasPrefix(str, prefix) THEN SubSeq(str, Len(prefix) + 1, Len(str)) ELSE str

\* no backend has been constructed: NewGelfBackend(addr) is about to run
NInit(on) ==
    /\ narg \in (IF on THEN Addrs ELSE {<<>>})
    /\ naddr = narg
    /\ npc = IF on THEN "prefix" ELSE "off"
    /\ nres = None

\* the transport variables while no gelfBackend exists
TNone ==
    /\ networkType = Nil
    /\ mu = Nil
    /\ conn = NilConn
    /\ openConns = {}
    /\ nDials = 0
    /\ pc = [c \in Callers |-> "off"]
    /\ msg \in [Callers -> {NoMsg}]
    /\ bytesLeft = [c \in Callers |-> 0]
    /\ idx = [c \in Callers |-> 0]
    /\ nChunks = [c \in Callers |-> 0]
    /\ msgId = [c \in Callers |-> <<>>]
    /\ connectCount = [c \in Callers |-> 0]
    /\ result = [c \in Callers |-> None]
    /\ put = [c \in Callers |-> <<>>]
    /\ dgrams = [c \in Callers |-> <<>>]
    /\ trace = [c \in Callers |-> <<>>]
    /\ writes = [c \in Callers |-> 0]
    /\ closes = 0
    /\ crashed = FALSE

\* NewGelfBackend: the prefix of addr selects the network type, or the call
\* returns the "invalid protocol" error
NewPrefix ==
    /\ npc = "prefix"
    /\ IF HasPrefix(naddr, PrefixTcp)
       THEN /\ networkType' = TCP
            /\ naddr' = TrimPrefix(naddr, PrefixTcp)
            /\ npc' = "dial"
            /\ UNCHANGED nres
       ELSE IF HasPrefix(naddr, PrefixUdp)
       THEN /\ networkType' = UDP
            /\ naddr' = TrimPrefix(naddr, PrefixUdp)
            /\ npc' = "dial"
            /\ UNCHANGED nres
       ELSE /\ nres' = ErrProtocol
            /\ npc' = "done"
            /\ UNCHANGED <<networkType, naddr>>
    /\ UNCHANGED <<mu, conn, openConns, nDials, pc, msg, bytesLeft, idx, nChunks,
                   msgId, connectCount, result, put, dgrams, trace, writes, narg>>
    /\ UNCHANGED notN

\* NewGelfBackend: net.Dial(string(networkType), addr); on success the
\* backend is returned and the program's goroutines may call SendMessage
NewDial ==
    /\ npc = "dial"
    /\ \/ /\ nres' = ErrDial
          /\ networkType' = Nil
          /\ UNCHANGED <<conn, openConns, nDials, pc>>
       \/ /\ nres' = Ok
          /\ conn' = <<nDials>>
          /\ openConns' = openConns \cup {nDials}
          /\ nDials' = nDials + 1
          /\ pc' = [c \in Callers |-> IF c = "c1" THEN "idle" ELSE "off"]
          /\ UNCHANGED networkType
    /\ npc' = "done"
    /\ UNCHANGED <<mu, msg, bytesLeft, idx, nChunks, msgId, connectCount, result,
                   put, dgrams, trace, writes, narg, naddr>>
    /\ UNCHANGED notN

\* ======================================================================
\* Specifications
\* ======================================================================
\* the transport is not part of the queue specifications
TOff == TInit({TCP}, {})
\* the queue is not part of the transport specifications
QOff == QInit({}, {})
\* the pool is part of the pool specification only
OOff == OInit({1}, {})
\* the UdpHook is part of its own specification only
HOff == HInit({FALSE}, {}, FALSE)
\* an asynchronous Hook on which FlushAndClose is not called
KOff == KInit({FALSE}, FALSE)
\* the other specifications start with the backend constructed
NOff == NInit(FALSE)
\* UnmarshalJSON is part of its own specification only
UOff == UInit(FALSE)
\* the durable queue is part of its own specification only
ROff == RInit({Asynq}, FALSE, FALSE) /\ rq = <<>>

\* ---------------------------------------------- specification: datagram
UdpInit == TInit({UDP}, {"c1"}) /\ QOff /\ OOff /\ HOff /\ KOff /\ ROff /\ UOff /\ NOff

UdpNext ==
    \E c \in Callers :
        \/ Call(c, UdpMessages)
        \/ Lock(c)
        \/ Marshal(c)
        \/ UdpWriteBegin(c)
        \/ UdpWriteSingle(c)
        \/ UdpRand(c)
        \/ UdpWriteChunk(c)
        \/ UdpWriteEnd(c)
        \/ Return(c)

SpecUdp == UdpInit /\ [][UdpNext]_vars

\* ------------------------------- specification: concurrent SendMessage calls
SendInit == TInit({TCP, UDP}, Callers) /\ QOff /\ OOff /\ HOff /\ KOff /\ ROff /\ UOff /\ NOff

SendNext ==
    \E c \in Callers :
        \/ Call(c, SendMessages)
        \/ Lock(c)
        \/ Marshal(c)
        \/ TcpWriteStep(c)
        \/ TcpDial(c, -1)
        \/ UdpWriteBegin(c)
        \/ UdpWriteSingle(c)
        \/ UdpRand(c)
        \/ UdpWriteChunk(c)
        \/ UdpWriteEnd(c)
        \/ Return(c)

SpecSend == SendInit /\ [][SendNext]_vars

\* --------------------- specification: Close concurrent with SendMessage
\* calls of Close the model follows
MaxCloses == 2

\* what the read of u.conn in Close can yield. Close does not take u.mu, so
\* the read races with the assignment `u.conn, err = net.Dial(...)` of a
\* tcpReconnect in progress: besides the value u.conn holds, the two words of
\* the interface can be seen half written, which is the nil interface or a
\* nil *net.TCPConn
TypedNil == <<-1>>
ConnSeen ==
    {conn} \cup (IF \E c \in Callers : pc[c] = "tcpReconnect"
                 THEN {NilConn, TypedNil} ELSE {})

\* Close(): `return u.conn.Close()`
Close ==
    /\ ~crashed
    /\ closes < MaxCloses
    /\ \E seen \in ConnSeen :
          IF seen = NilConn
          THEN \* a method call on the nil interface: the program panics
               /\ crashed' = TRUE
               /\ pc' = [c \in Callers |-> "crashed"]
               /\ UNCHANGED <<closes, openConns>>
          ELSE \* the connection is closed (a closed one, or a nil
               \* *net.TCPConn, answers with an error) and Close returns
               /\ openConns' = openConns \ {seen[1]}
               /\ closes' = closes + 1
               /\ UNCHANGED <<crashed, pc>>
    /\ UNCHANGED <<networkType, mu, conn, nDials, msg, bytesLeft, idx, nChunks,
                   msgId, connectCount, result, put, dgrams, trace, writes>>
    /\ UNCHANGED notC

CloseInit == TInit({TCP}, Callers) /\ QOff /\ OOff /\ HOff /\ KOff /\ ROff /\ UOff /\ NOff

CloseNext ==
    \/ \E c \in Callers :
         \/ Call(c, SendMessages)
         \/ Lock(c)
         \/ Marshal(c)
         \/ TcpWriteStep(c)
         \/ TcpDial(c, -1)
         \/ Return(c)
    \/ Close

SpecClose == CloseInit /\ [][CloseNext]_vars

\* ------------------------------------ specification: the delivery queue
QueueInit == QInit(Producers, Workers) /\ TOff /\ OOff /\ HOff /\ KOff /\ ROff /\ UOff /\ NOff

QueueNext ==
    \/ \E p \in Producers : Fire(p) \/ PushLock(p) \/ PushAppend(p) \/ PushSignal(p)
    \/ \E w \in Workers : FrontLock(w) \/ FrontCheck(w) \/ FrontWait(w) \/ WorkerSend(w)

SpecQueue == QueueInit /\ [][QueueNext]_vars

\* the goroutines are scheduled: a goroutine that can take a step of PushBack
\* or FrontBlock takes it. A Send need not return (the stream transport
\* redials until a dial succeeds) and a producer need not log again.
QueueFairness ==
    /\ \A p \in Producers :
          WF_vars(PushLock(p)) /\ WF_vars(PushAppend(p)) /\ WF_vars(PushSignal(p))
    /\ \A w \in Workers :
          SF_vars(FrontLock(w)) /\ WF_vars(FrontCheck(w)) /\ WF_vars(FrontWait(w))

SpecQueueFair == SpecQueue /\ QueueFairness

\* ------------------------------------------- specification: the pool
PoolInit == OInit(-1..MaxCap, Clients) /\ TOff /\ QOff /\ HOff /\ KOff /\ ROff /\ UOff /\ NOff

PoolNext ==
    \E g \in Clients :
        \/ Get(g)
        \/ GetLock(g)
        \/ GetFactory(g)
        \/ GetFrontLock(g)
        \/ GetFrontCheck(g)
        \/ GetFrontWait(g)
        \/ PutLock(g)
        \/ PutAppend(g)
        \/ PutSignal(g)

SpecPool == PoolInit /\ [][PoolNext]_vars

\* ------------- specification: the Hook in either mode, with FlushAndClose
\* the workers are started `if !synchronous`
HookInit ==
    /\ KInit(BOOLEAN, TRUE)
    /\ \/ synchronous /\ QInit(Producers, {})
       \/ ~synchronous /\ QInit(Producers, {"w1"})
    /\ TOff /\ OOff /\ HOff /\ ROff /\ UOff /\ NOff

HookNext ==
    \/ \E p \in Producers :
          \/ Fire(p)
          \/ SyncSend(p)
          \/ SyncReturn(p)
          \/ PushLock(p)
          \/ PushAppend(p)
          \/ PushSignal(p)
    \/ \E w \in Workers :
          \/ FrontLock(w)
          \/ FrontCheck(w)
          \/ FrontWait(w)
          \/ WorkerSend(w)
    \/ FlushCall
    \/ FlushLenLock
    \/ FlushLen
    \/ BackendClose

SpecHook == HookInit /\ [][HookNext]_vars

\* ------------------------------ specification: the asynchronous UdpHook
UdpHookInit == HInit({FALSE}, Producers, TRUE) /\ TOff /\ QOff /\ OOff /\ KOff /\ ROff /\ UOff /\ NOff

UdpHookNext ==
    \/ \E p \in Producers :
          \/ UdpFire(p)
          \/ UdpFireRLock(p)
          \/ UdpFireAdd(p)
          \/ UdpFireSend(p)
          \/ UdpFireReturn(p)
    \/ UdpWorkerRecv
    \/ UdpWorkerSend
    \/ UdpWorkerDone
    \/ FlushLock
    \/ FlushLocked
    \/ FlushReturn

SpecUdpHook == UdpHookInit /\ [][UdpHookNext]_vars

\* the goroutines are scheduled: a Fire past its RLock, the worker and Flush
\* take the step they can take; the worker's sendEntry returns (a datagram
\* write does not wait for the peer). A producer need not log again.
UdpHookFairness ==
    /\ \A p \in Producers :
          WF_vars(UdpFireAdd(p)) /\ WF_vars(UdpFireSend(p)) /\ WF_vars(UdpFireReturn(p))
    /\ WF_vars(UdpWorkerRecv) /\ WF_vars(UdpWorkerSend) /\ WF_vars(UdpWorkerDone)
    /\ WF_vars(FlushLocked) /\ WF_vars(FlushReturn)

SpecUdpHookFair == SpecUdpHook /\ UdpHookFairness

\* ------------------------------------ specification: the UdpHook of either mode
UdpHookAnyInit ==
    HInit(BOOLEAN, Producers, TRUE) /\ TOff /\ QOff /\ OOff /\ KOff /\ ROff /\ UOff /\ NOff

UdpHookAnyNext ==
    \/ UdpHookNext
    \/ FlushSync

SpecUdpHookAny == UdpHookAnyInit /\ [][UdpHookAnyNext]_vars

\* ----------------------------------- specification: the durable queue
RedisInit ==
    /\ RInit({Asynq, GoRedis}, TRUE, TRUE)
    /\ TOff /\ QOff /\ OOff /\ HOff /\ KOff /\ UOff /\ NOff

RedisNext ==
    \/ RedisSend
    \/ RedisPush
    \/ RedisReturn
    \/ ConsumePop
    \/ ConsumeDecode
    \/ ConsumeHandle
    \/ ConsumeAgain

SpecRedis == RedisInit /\ [][RedisNext]_vars

\* ------------------------------------ specification: UnmarshalJSON
UnmarshalInit ==
    /\ UInit(TRUE)
    /\ TOff /\ QOff /\ OOff /\ HOff /\ KOff /\ ROff /\ NOff

UnmarshalNext ==
    \/ UnmarshalParse
    \/ UnmarshalVisit
    \/ UnmarshalReturn

SpecUnmarshal == UnmarshalInit /\ [][UnmarshalNext]_vars

\* ------------- specification: NewGelfBackend, then SendMessage on its result
NewInit ==
    /\ NInit(TRUE)
    /\ TNone
    /\ QOff /\ OOff /\ HOff /\ KOff /\ ROff /\ UOff

NewNext ==
    \/ NewPrefix
    \/ NewDial
    \/ SendNext

SpecNew == NewInit /\ [][NewNext]_vars

\* ======================================================================
\* Claims
\* ======================================================================

CeilDiv(a, b) == (a + b - 1) \div b

\* what reached the connection, without the write results
Issued(c) ==
    [k \in 1..Len(dgrams[c]) |->
        [hdr |-> dgrams[c][k].hdr, off |-> dgrams[c][k].off, len |-> dgrams[c][k].len]]

AllWritten(c) ==
    \A k \in 1..Len(dgrams[c]) : ~dgrams[c][k].err /\ dgrams[c][k].n = dgrams[c][k].size

\* C1: for a compressed payload of S bytes the datagram write issues one
\* unchunked datagram when S <= 1420; when S > 1420 and ceil(S/1408) <= 255
\* it issues ceil(S/1408) datagrams of at most 1420 bytes, the k-th carrying
\* the 12-byte header 0x1e 0x0f, the message id shared by all chunks, the
\* index k and the count, in the order k = 0..count-1; when ceil(S/1408) > 255
\* it returns an error and issues no write. (The datagrams issued are at every
\* moment a prefix of that sequence, and the whole of it when the write
\* returns success or when no conn.Write and no rand.Reader read failed.)
C1_UdpChunking ==
    \A c \in Callers :
        (networkType = UDP /\ pc[c] \in {"udpSingle", "udpRand", "udpLoop", "ret"}
            /\ result[c] # ErrMarshal) =>
        LET S == msg[c].zsize
            ds == dgrams[c]
            cnt == CeilDiv(S, 1408)
        IN  /\ \A k \in 1..Len(ds) : ds[k].size <= 1420
            /\ S <= 1420 =>
                  /\ Len(ds) <= 1
                  /\ \A k \in 1..Len(ds) : Issued(c)[k] = [hdr |-> <<>>, off |-> 0, len |-> S]
                  /\ result[c] = Ok => Len(ds) = 1
                  /\ pc[c] = "ret" => Len(ds) = 1
            /\ (S > 1420 /\ cnt <= 255) =>
                  /\ Len(ds) <= cnt
                  /\ \A k \in 1..Len(ds) :
                        /\ Len(ds[k].hdr) = 12
                        /\ SubSeq(ds[k].hdr, 1, 2) = <<30, 15>>
                        /\ SubSeq(ds[k].hdr, 3, 10) = SubSeq(ds[1].hdr, 3, 10)
                        /\ SubSeq(ds[k].hdr, 3, 10) \in MsgIds
                        /\ ds[k].hdr[11] = k - 1
                        /\ ds[k].hdr[12] = cnt
                        /\ ds[k].off = (k - 1) * 1408
                        /\ ds[k].len = Min(1408, S - (k - 1) * 1408)
                        /\ ds[k].size = 12 + ds[k].len
                  /\ result[c] = Ok => Len(ds) = cnt
                  /\ (pc[c] = "ret" /\ AllWritten(c) /\ result[c] # ErrRand) =>
                        (Len(ds) = cnt /\ result[c] = Ok)
            /\ (S > 1420 /\ cnt > 255) =>
                  /\ ds = <<>>
                  /\ pc[c] = "ret"
                  /\ result[c] = ErrTooLarge

\* a 5000-byte payload went out as 4 chunks, and a payload of 255 chunks too
C1_Witness ==
    \E c \in Callers :
        /\ pc[c] = "ret" /\ result[c] = Ok
        /\ msg[c].zsize = 5000 /\ Len(dgrams[c]) = 4

NotDialFail(e) == e # "dialfail"

IsPrefix(s, t) == Len(s) <= Len(t) /\ s = SubSeq(t, 1, Len(s))

\* C2: one SendMessage call on the stream transport: a failed first send is
\* followed by one reconnect phase (dials until one succeeds) and exactly one
\* more send, whose error, if it fails too, is what the call returns; no call
\* makes more than two sends or more than one reconnect phase.
C2_BoundedRetry ==
    \A c \in Callers :
        networkType = TCP =>
        LET t == trace[c]
            core == SelectSeq(t, NotDialFail)
        IN  /\ IsPrefix(core, <<"send", "fail", "dial", "send", "fail">>)
            /\ \A i \in 1..Len(t) :
                  t[i] = "dialfail" =>
                     /\ i > 2
                     /\ \A j \in 1..(i - 1) : t[j] # "dial"
            /\ pc[c] = "tcpWrite1" => core = <<"send">>
            /\ pc[c] = "tcpReconnect" => core = <<"send", "fail">>
            /\ pc[c] = "tcpWrite2" =>
                  (core = <<"send", "fail", "dial", "send">> /\ conn # NilConn)
            /\ (pc[c] = "ret" /\ result[c] # ErrMarshal) =>
                  \/ core = <<"send">> /\ result[c] = Ok
                  \/ core = <<"send", "fail", "dial", "send">> /\ result[c] = Ok
                  \/ core = <<"send", "fail", "dial", "send", "fail">>
                        /\ result[c] = ErrWrite

\* a call returns the error of its second send, after a reconnect phase in
\* which a dial failed before one succeeded
C2_Witness ==
    \E c \in Callers :
        /\ pc[c] = "ret" /\ result[c] = ErrWrite
        /\ trace[c] = <<"send", "fail", "dialfail", "dial", "send", "fail">>

\* the call of c has written to the connection (or dialled) and not returned
Written(c) == writes[c] > 0 \/ Len(trace[c]) > 1 \/ dgrams[c] # <<>>

\* C3: SendMessage calls on one transport are mutually exclusive: from the
\* first connection write of a call until it returns (its reconnect phase,
\* its retry and all its chunks included) no other call writes.
C3_MutualExclusion ==
    \A c, d \in Callers : (c # d /\ Written(c)) => ~Written(d)

\* a caller waits for the lock while another is in its post-reconnect retry
C3_Witness ==
    \E c, d \in Callers :
        /\ c # d
        /\ pc[d] = "lock"
        /\ pc[c] = "tcpWrite2" /\ writes[c] > 0

\* C4: a SendMessage on the stream transport that returns success has put on
\* the connection exactly the message bytes followed by one 0x00, each byte
\* once and in order, whatever the write results were (partial writes too).
C4_StreamFraming ==
    \A c \in Callers :
        (networkType = TCP /\ pc[c] = "ret" /\ result[c] = Ok) =>
            put[c] = Append(msg[c].data, 0)

\* no goroutine is inside PushBack, and none is on its way from the signal
\* (or from its Send) to the list
Quiescent ==
    /\ \A p \in Producers : ppc[p] \in {"idle", "off"}
    /\ \A w \in Workers : wpc[w] \in {"fb_wait", "send", "off"}

\* C5: no missed wakeups: there is no state with a pending record, an empty
\* signal channel and a worker blocked on the signal, once every PushBack
\* begun has returned and every worker woken has looked at the list.
C5_NoMissedWakeup ==
    ~ /\ list # <<>>
      /\ ch = 0
      /\ \E w \in Workers : wpc[w] = "fb_wait"
      /\ Quiescent

\* C6: no duplicate wakeups: a FrontBlock caller woken by the signal finds a
\* record to remove; none is woken to find the list empty.
C6_NoStaleWakeup ==
    \A w \in Workers : ~(wpc[w] = "fb_check" /\ woken[w] /\ list = <<>>)

Recs(q) == { q[i].rec : i \in 1..Len(q) }
RecSeq(q) == [i \in 1..Len(q) |-> q[i].rec]
Elems(q) == { q[i] : i \in 1..Len(q) }
NoDup(q) == \A i, j \in 1..Len(q) : q[i] = q[j] => i = j

\* every record is removed at most once, sent at most once and only by the
\* worker that removed it, never back in the list once removed, and a failed
\* Send is printed and nothing else
C7_AtMostOnce ==
    /\ NoDup(pushed)
    /\ NoDup(RecSeq(popped))
    /\ NoDup(RecSeq(sends))
    /\ NoDup(list)
    /\ Elems(list) \cap Recs(popped) = {}
    /\ Elems(list) \cup Recs(popped) = Elems(pushed)
    /\ \A i \in 1..Len(sends) :
          \E j \in 1..Len(popped) :
             popped[j].rec = sends[i].rec /\ popped[j].by = sends[i].by
    /\ printed = RecSeq(SelectSeq(sends, LAMBDA e : e.res # Ok))

\* the worker is inside a FrontBlock call
InFrontBlock(w) == wpc[w] \in {"fb_lock", "fb_check", "fb_wait"}

\* C7: every record handed to PushBack is delivered exactly once: FrontBlock
\* returns it to at most one worker, it is eventually returned as long as
\* some worker keeps calling FrontBlock, and after a failed Send it is only
\* printed, neither re-enqueued nor sent again.
C7_ExactlyOnce ==
    /\ []C7_AtMostOnce
    /\ \A r \in 1..MaxRecords :
          (\E w \in Workers : []<>InFrontBlock(w)) =>
             ((r \in Elems(pushed)) ~> (r \in Recs(popped)))

\* C8: FIFO: the records are removed in the order they were inserted; if one
\* worker removed them all, they reach Send in that order too.
C8_Fifo ==
    /\ IsPrefix(RecSeq(popped), pushed)
    /\ \A w \in Workers :
          (\A i \in 1..Len(popped) : popped[i].by = w) =>
             IsPrefix(RecSeq(sends), pushed)

\* two records inserted by different producers, the later-logged one first,
\* have both been removed
C8_Witness ==
    /\ Len(popped) >= 2
    /\ Len(pushed) >= 2
    /\ pushed[1] > pushed[2]
    /\ \E w \in Workers : \A i \in 1..Len(popped) : popped[i].by = w

InGet(g) == gpc[g] \in {"get_lock", "get_factory", "fb_lock", "fb_check", "fb_wait"}

\* the objects that exist outside the factory: held by a client or in the pool
HeldObjs == { held[g] : g \in Clients } \ {NoObj}
PoolObjs == { poList[i] : i \in 1..Len(poList) }

\* the factory never made more than capacity objects (capacity <= 0 counts as
\* 1, failed calls do not count), and no object is in two hands
C10_AtMostCapacity ==
    /\ capacity = (IF capArg <= 0 THEN 1 ELSE capArg)
    /\ createdCount <= capacity
    /\ createdCount = factoryCalls.ok
    /\ HeldObjs \cup PoolObjs \subseteq 1..createdCount
    /\ HeldObjs \cap PoolObjs = {}
    /\ NoDup(poList)
    /\ \A g, h \in Clients : (g # h /\ held[g] # NoObj) => held[g] # held[h]
    /\ Cardinality({ g \in Clients : held[g] # NoObj }) <= capacity

\* a Get that returns once capacity objects exist returns an object that a
\* Put placed in the pool
C10_GetWaitsForPut ==
    \A g \in Clients :
        (InGet(g) /\ createdCount = capacity /\ gpc'[g] = "holding") =>
            (poList # <<>> /\ held'[g] = Head(poList))

\* C10: the number of objects the factory created is at most capacity in
\* every state (capacity <= 0 is treated as 1, a failed factory call does not
\* count); once capacity objects exist and none is in the pool, a further Get
\* does not return until a Put has occurred, so capacity+1 concurrent Get
\* calls create at most capacity objects.
C10_BoundedPool == []C10_AtMostCapacity /\ [][C10_GetWaitsForPut]_vars

\* capacity objects are out, the pool is empty, and one more Get is blocked
\* on the signal, after a factory call had failed
C10_Witness ==
    /\ createdCount = capacity
    /\ capacity = MaxCap
    /\ factoryCalls.failed > 0
    /\ Cardinality({ g \in Clients : held[g] # NoObj }) = capacity
    /\ poList = <<>>
    /\ \E g \in Clients : gpc[g] = "fb_wait"

\* C9: in asynchronous mode Fire only appends the record and returns: it
\* never waits for free space in the queue, and never for a Flush that is
\* itself waiting for the worker's Sends.
C9_FireNeverWaits ==
    \A p \in Producers :
        /\ hpc[p] = "send" => Len(buf) < bufMaxSize
        /\ hpc[p] = "rlock" => ~(rwWriter # Nil /\ wg > 0)

\* the call of c is on the stream transport, its first tcpWrite failed and a
\* dial then succeeded
Reconnected(c) ==
    /\ networkType = TCP
    /\ \E i \in 1..Len(trace[c]) : trace[c][i] = "dial"

\* the write on the new connection did not fail
LastWriteOk(c) == trace[c] # <<>> /\ trace[c][Len(trace[c])] # "fail"

\* a call that reconnected and whose write on the new connection succeeded
\* returns success
C11_SuccessAfterReconnect ==
    \A c \in Callers :
        (pc[c] = "ret" /\ Reconnected(c) /\ LastWriteOk(c)) => result[c] = Ok

\* a call in the reconnect loop stays in it, holding the lock and without a
\* result, until a dial succeeds; it then writes on the connection dialled
C11_BlocksThroughReconnect ==
    \A c \in Callers :
        pc[c] = "tcpReconnect" =>
            /\ mu' = c
            /\ result'[c] = None
            /\ \/ pc'[c] = "tcpReconnect"
               \/ pc'[c] = "tcpWrite2" /\ conn' # NilConn /\ conn' # conn

\* C11: a SendMessage on a stream transport whose connection is broken blocks
\* through the reconnect loop while dials fail, and once a dial succeeds and
\* the write on the new connection succeeds it returns success: the caller
\* observes no error.
C11_ReconnectThenSuccess ==
    /\ []C11_SuccessAfterReconnect
    /\ [][C11_BlocksThroughReconnect]_vars

\* the first write failed, a dial failed, the next one succeeded, the write on
\* the new connection succeeded and the call is about to return success
C11_Witness ==
    \E c \in Callers :
        /\ pc[c] = "ret"
        /\ result[c] = Ok
        /\ trace[c] = <<"send", "fail", "dialfail", "dial", "send">>

\* the last call of c on the stream transport has returned a network error
ReturnedError(c) == networkType = TCP /\ pc[c] = "idle" /\ result[c] = ErrWrite

\* C12: after a SendMessage on the stream transport has returned an error
\* the transport is not in a terminal state: the caller no longer holds the
\* send lock, the transport references a connection (outside a reconnect
\* loop), and the calls that follow run the same write, reconnect, retry-once
\* sequence; such a call can succeed (C12_Witness).
C12_UsableAfterError ==
    \A c \in Callers :
        ReturnedError(c) =>
            /\ mu # c
            /\ (\A d \in Callers : pc[d] # "tcpReconnect") =>
                  (conn # NilConn /\ conn[1] \in openConns)
            /\ \A d \in Callers :
                  /\ pc[d] \in {"tcpWrite1", "tcpWrite2", "tcpReconnect"} => mu = d
                  /\ IsPrefix(SelectSeq(trace[d], NotDialFail),
                              <<"send", "fail", "dial", "send", "fail">>)

\* a call has returned the error of its second failure; a call that ran after
\* it failed its first write, reconnected, and succeeded
C12_Witness ==
    \E c, d \in Callers :
        /\ ReturnedError(c)
        /\ pc[d] = "ret" /\ result[d] = Ok
        /\ SelectSeq(trace[d], NotDialFail) = <<"send", "fail", "dial", "send">>

\* the k-th conn.Write of the call of c failed or was short
BadWrite(c, k) == dgrams[c][k].err \/ dgrams[c][k].n # dgrams[c][k].size

\* C13: on the datagram transport SendMessage returns success only if every
\* datagram of the message was written completely; the first failed or short
\* write is the last write of the call, which returns an error.
C13_NoPartialSuccess ==
    \A c \in Callers :
        networkType = UDP =>
            /\ \A k \in 1..Len(dgrams[c]) :
                  BadWrite(c, k) =>
                     /\ k = Len(dgrams[c])
                     /\ pc[c] = "ret"
                     /\ result[c] \in {ErrWrite, ErrShort}
            /\ (pc[c] = "ret" /\ result[c] = Ok) =>
                  /\ Len(dgrams[c]) = numChunks(msg[c].zsize)
                  /\ \A k \in 1..Len(dgrams[c]) : ~BadWrite(c, k)

\* the second of three chunks was written short: the call returns an error
\* and the third chunk is not sent
C13_Witness ==
    \E c \in Callers :
        /\ networkType = UDP /\ pc[c] = "ret"
        /\ nChunks[c] = 3 /\ Len(dgrams[c]) = 2
        /\ ~dgrams[c][2].err /\ dgrams[c][2].n < dgrams[c][2].size
        /\ result[c] = ErrShort

\* record r was inserted in the queue before FlushAndClose was called
PushedBeforeFlush(r) == \E i \in 1..Min(flushAt, Len(pushed)) : pushed[i] = r

\* C14: in asynchronous mode FlushAndClose calls the transport's Close only
\* after a u.queue.Len() of its own has returned 0. That is its only barrier:
\* Close can be called while a worker's Send of a record pushed before the
\* flush is still in progress (C14_Witness).
C14_CloseAfterQueueEmpty ==
    /\ closed => flpc = "done"
    /\ (~synchronous /\ flpc \in {"close", "done"}) => lenSeen = 0
    /\ (~synchronous /\ flpc = "len_lock" /\ lenSeen # NoLen) => lenSeen > 0

\* Close has been called and a worker is still inside sendEntry with a record
\* that was pushed before FlushAndClose was called
C14_Witness ==
    /\ ~synchronous
    /\ closed
    /\ \E w \in Workers :
          /\ wpc[w] = "send"
          /\ PushedBeforeFlush(wcur[w])
          /\ \A i \in 1..Len(sends) : sends[i].rec # wcur[w]

\* C15: in synchronous mode Fire returns what sendEntry returned for that
\* same record (its error, or nil), after sendEntry has returned, and nothing
\* is printed; in asynchronous mode every Fire returns nil, sendEntry is
\* called by the workers only, and a failure is printed by the worker and
\* returned to no Fire call.
C15_FireResult ==
    /\ synchronous =>
          /\ \A e \in returned :
                \E i \in 1..Len(sends) :
                   /\ sends[i].rec = e.rec
                   /\ sends[i].res = e.res
                   /\ sends[i].by \in Producers
          /\ \A p \in Producers :
                ppc[p] = "sync_send" => \A i \in 1..Len(sends) : sends[i].rec # prec[p]
          /\ NoDup(RecSeq(sends))
          /\ printed = <<>>
          /\ pushed = <<>>
    /\ ~synchronous =>
          /\ \A e \in returned : e.res = Ok
          /\ \A i \in 1..Len(sends) : sends[i].by \in Workers
          /\ printed = RecSeq(SelectSeq(sends, LAMBDA e : e.res # Ok))

\* synchronous mode: one Fire has returned the encode error of its record,
\* another the network error of its own, a third nil
C15_Witness ==
    /\ synchronous
    /\ \E a, b, c \in returned :
          /\ a.res = ErrMarshal /\ SendResultOf(a.rec) = ErrMarshal
          /\ b.res = ErrWrite /\ SendResultOf(b.rec) = ErrWrite
          /\ c.res = Ok /\ SendResultOf(c.rec) = Ok

\* the payload of message m is in the store or has been popped from it
Acknowledged(m) ==
    \/ Encode(m) \in Elems(rq)
    \/ ccur = Encode(m)
    \/ \E i \in 1..Len(handled) : handled[i].msg = m

\* C16: the durable-queue SendMessage never returns a push error to the
\* caller (a failed push is retried), and it returns success only after a
\* push has been acknowledged by the store.
C16_PushRetried ==
    /\ rres # ErrPush
    /\ (rpc = "ret" /\ rres = Ok) => Acknowledged(rmsg)

\* C17: when the handler has returned failure for a popped message, the same
\* payload is back on the queue when the consumer is done with it.
C17_RequeuedOnFailure ==
    (cpc = "returned" /\ cres = ErrHandler) => ccur \in Elems(rq)

\* C18: the consumer loop does not return on its own: no handler failure, no
\* undecodable payload and no failed pop ends LaunchConsumeSync.
C18_ConsumerKeepsRunning == cpc # "returned"

\* the object has a fixed field whose value has the wrong JSON type
HasWrongType ==
    \E k \in DOMAIN uin : k \in FixedFields /\ uin[k] # FieldType(k)

\* C19: UnmarshalJSON of an object in which a fixed field has the wrong JSON
\* type ends in an error returned to the caller: it does not crash, it does
\* not report success, and it leaves no underscore key in the extension
\* mapping.
C19_WrongTypeIsError ==
    (jpc = "done" /\ uobj /\ HasWrongType) => (ures = ErrJson /\ uextra = {})

\* C20: NewGelfBackend gives a stream transport for an address prefixed
\* tcp:// and a datagram transport for one prefixed udp://; for any other
\* address it returns an error and no transport, and dials no connection.
C20_SchemeSelectsTransport ==
    /\ nres = Ok =>
          /\ conn # NilConn \/ \E c \in Callers : pc[c] = "tcpReconnect"
          /\ HasPrefix(narg, PrefixTcp) \/ HasPrefix(narg, PrefixUdp)
          /\ HasPrefix(narg, PrefixTcp) => networkType = TCP /\ naddr = HostPort
          /\ HasPrefix(narg, PrefixUdp) => networkType = UDP /\ naddr = HostPort
    /\ (npc \notin {"off", "prefix"}
          /\ ~HasPrefix(narg, PrefixTcp) /\ ~HasPrefix(narg, PrefixUdp)) =>
          /\ npc = "done"
          /\ nres = ErrProtocol
          /\ networkType = Nil /\ conn = NilConn
          /\ nDials = 0 /\ openConns = {}
          /\ \A c \in Callers : pc[c] = "off"

\* the address TCP://h:1 has been refused without a dial
C20_Witness ==
    /\ npc = "done"
    /\ narg = <<"T", "C", "P", ":", "/", "/">> \o HostPort
    /\ nres = ErrProtocol
    /\ nDials = 0

\* C21: on the stream transport the failed connection is closed before its
\* replacement is dialled: at most one connection opened by the transport is
\* open, and every open connection is the one the transport references.
C21_OneOpenConnection ==
    networkType = TCP =>
        /\ Cardinality(openConns) <= 1
        /\ \A id \in openConns : conn = <<id>>

\* bytes the connection has accepted in the current tcpWrite of c
Accepted(c) == Len(msg[c].data) + 1 - bytesLeft[c]

\* C22: tcpWrite's remaining-byte counter never drops below 0, and tcpWrite
\* is not still writing once len(message)+1 bytes have been accepted, whatever
\* the write results (partial writes included).
C22_TcpWriteTerminates ==
    \A c \in Callers :
        pc[c] \in {"tcpWrite1", "tcpWrite2"} =>
            /\ bytesLeft[c] >= 0
            /\ Accepted(c) < Len(msg[c].data) + 1

\* the payloads the durable queue accounts for: those in the list, the one
\* the consumer has popped and is decoding or handling, and those whose message
\* the handler has accepted
InQueue == { rq[i] : i \in 1..Len(rq) } \ {EmptyPayload}
BeingHandled == IF cpc \in {"decode", "handle"} THEN {ccur} ELSE {}
HandledOk == { Encode(handled[i].msg) : i \in { j \in 1..Len(handled) : handled[j].ok } }
Accounted == InQueue \cup BeingHandled \cup HandledOk

\* C23: at-least-once: a payload the store has accepted (it is in the list)
\* stays accounted for at every step: it is in the list, being handled, or was
\* handled successfully; no step of Consume drops a popped payload.
C23_AtLeastOnce == [][Accounted \subseteq Accounted']_vars

\* no call of Close has crashed the program
CloseDoesNotCrash == ~crashed
\* once Close has returned the transport holds no open connection
ClosedHoldsNothing == closes > 0 => openConns = {}
\* once Close has returned the transport dials no more
NoDialAfterClose == closes > 0 => nDials' = nDials

\* C24: once Close has returned the transport holds no open connection and
\* dials no more, whatever SendMessage calls are in progress (one inside the
\* reconnect loop included), and no call of Close crashes the program.
C24_CloseIsFinal ==
    /\ [](CloseDoesNotCrash /\ ClosedHoldsNothing)
    /\ [][NoDialAfterClose]_vars

\* the step with which Flush returns
FlushReturns == fpc = "wait" /\ fpc' = "idle"
\* from the call of Flush to its return no Fire acquires the read lock, and
\* while Flush waits for the wait group no entry is added to it or to the buffer
NoNewEntry ==
    /\ fpc \in {"lock", "wait"} =>
          \A p \in Producers : hpc[p] = "rlock" => hpc'[p] = "rlock"
    /\ fpc = "wait" => wg' <= wg /\ Len(buf') <= Len(buf)

\* C25: asynchronous UdpHook: when Flush returns every entry whose Fire had
\* returned when Flush was called has completed sendEntry; no Fire adds an
\* entry while Flush waits; Flush returns when the worker keeps draining.
C25_FlushBarrier ==
    /\ [][FlushReturns => fsnap \subseteq done]_vars
    /\ [][NoNewEntry]_vars
    /\ (fpc \in {"lock", "wait"}) ~> (fpc = "idle")

\* Flush has returned, and entries had been fired when it was called
C25_Witness ==
    /\ fpc = "idle"
    /\ ~hsync
    /\ rwWriter = Nil
    /\ Cardinality(fsnap) >= 2

\* C26: Fire and Flush use only the locks, wait group and buffer that
\* newUdpHook created for the hook's mode: no call dereferences a nil one; on a
\* synchronous hook Fire runs to completion.
C26_NoNilLock == ~hpanic

====
